---- MODULE Spec2Model ----
(***************************************************************************)
(* Model of the brigadier execution engine:                                *)
(*   - the dependency graph scheduler (src/v2/brigadier/src/graph.ts)      *)
(*   - the retry combinator          (src/v2/brigadier/src/retry.ts)       *)
(*   - the error notifier            (src/v2/brigadier/src/onerror.ts)     *)
(*   - the graph builder             (src/v2/brigadier/src/graph.ts)       *)
(* JavaScript runs each piece of synchronous code to completion, so every  *)
(* action below is one synchronous stretch of code between two awaits.     *)
(***************************************************************************)
EXTENDS Integers, Sequences, FiniteSets, TLC

\* ---------------------------------------------------------------- bounds
\* longest dependsOn list of a graph item
MaxDeps == 2
\* how many times run() is invoked on one graph instance
MaxRuns == 2
\* depth of nested isReachable calls the engine's call stack can hold
StackLimit == 6
\* largest maxAttempts given to the Retry constructor
MaxAttemptsArg == 5
\* latest invocation on which the wrapped runnable first succeeds
MaxSuccessIndex == 6
\* how many times run() is invoked on one Retry instance
MaxRetryRuns == 2
\* how many times run() is invoked on one error-notifying Runnable
MaxNotifierRuns == 4

\* ---------------------------------------------------------------- values
\* the keys of the graph spec, in declaration order (Object.entries order)
ItemOrder == <<"a", "b", "c">>
Ids == {ItemOrder[k] : k \in 1..Len(ItemOrder)}
\* an id that is no key of the graph spec
Missing == "zz"
\* the values an item's runnable may reject with
Reasons == {"fail", "boom"}
NoReason == "none"
NoId == "none"

NotStarted == "NotStarted"
InProgress == "InProgress"
Completed == "Completed"
Failed == "Failed"
QueuedRunnableStatus == {NotStarted, InProgress, Completed, Failed}

VARIABLES
  deps,        \* item id -> its dependsOn list (readonly after construction)
  status,      \* item id -> QueuedRunnableStatus
  invoked,     \* item id -> number of times its runnable's run() was called
  reason,      \* item id -> the value its runnable rejected with
  pc,          \* where the graph's run() is: idle, awaiting, resolved, rejected
  inProgress,  \* the keys of run()'s local inProgress map, in insertion order
  raceWinner,  \* the item whose promise settled the pending Promise.race
  error,       \* the value run() rejected with
  runs         \* number of run() invocations so far

graphVars == <<deps, status, invoked, reason, pc, inProgress, raceWinner, error, runs>>

VARIABLES
  successIndex,        \* the wrapped runnable succeeds from this invocation on
  attemptIndex,        \* the wrapped runnable's own count of its invocations
  ctorArg,             \* the maxAttempts argument given to the constructor
  maxAttempts,         \* this.maxAttempts
  backoff,             \* this.backoff
  rpc,                 \* where the Retry is: new, threw, constructed, attempt,
                       \* sleeping, resolved, rejected
  attemptCount,        \* run()'s local attemptCount
  nextBackoffSeconds,  \* run()'s local nextBackoffSeconds
  waits,               \* the arguments of the sleep() calls of the current run()
  retryError,          \* the value the constructor threw or run() rejected with
  retryRuns,           \* number of run() invocations so far
  failures,            \* the values the attempts of the current run() rejected with
  inFlight,            \* number of pending promises of this.impl.run()
  timers,              \* number of pending sleep() timers
  derived,             \* the Retry that withBackoff returned
  withArg,             \* the backoff given to withBackoff
  runOf                \* whose run() is active: "receiver" or "derived"

retryVars == <<successIndex, attemptIndex, ctorArg, maxAttempts, backoff, rpc,
               attemptCount, nextBackoffSeconds, waits, retryError, retryRuns,
               failures, inFlight, timers, derived, withArg, runOf>>

VARIABLES
  npc,              \* where the notifying run() is: idle, main, handler,
                    \* resolved, rejected
  mainOutcome,      \* how main.run() settled in the current run()
  mainFailure,      \* the value main.run() rejected with in the current run()
  handlerFailure,   \* the value handler.run() rejected with in the current run()
  handlerCalls,     \* calls of handler.run() in the current run()
  ledger,           \* the calls of main.run() and handler.run(), in order,
                    \* over all run()s (the tests' ledger)
  notifierError,    \* the value the notifying run() rejected with
  notifierRuns      \* number of run() invocations so far

notifierVars == <<npc, mainOutcome, mainFailure, handlerFailure, handlerCalls,
                  ledger, notifierError, notifierRuns>>

VARIABLES
  key,    \* the key of the entry of the graph spec being converted
  gis,    \* the GraphItemSpec of that entry
  built,  \* the QueuedRunnable made from it
  bpc     \* where the conversion is: idle, spec, built

builderVars == <<key, gis, built, bpc>>

vars == <<graphVars, retryVars, notifierVars, builderVars>>

\* ---------------------------------------------------------------- helpers
Range(s) == {s[k] : k \in 1..Len(s)}

\* the injective sequences over S of length at most n
RECURSIVE SeqsUpTo(_, _)
SeqsUpTo(S, n) ==
  IF n = 0 THEN {<<>>}
  ELSE LET shorter == SeqsUpTo(S, n - 1)
       IN shorter \cup {Append(s, x) : s \in {t \in shorter : Len(t) = n - 1},
                                       x \in S}

DepLists == {s \in SeqsUpTo(Ids \cup {Missing}, MaxDeps) :
               \A i, j \in 1..Len(s) : i # j => s[i] # s[j]}

\* ---------------------------------------------------------------- rejection values
NoError == [name |-> "none", id |-> NoId, text |-> "", reason |-> NoReason]
\* new Error("not all items in the graph are reachable")
InvalidGraphError ==
  [name |-> "Error", id |-> NoId,
   text |-> "not all items in the graph are reachable", reason |-> NoReason]
\* what the engine throws when the call stack is exhausted
StackOverflowError ==
  [name |-> "RangeError", id |-> NoId,
   text |-> "Maximum call stack size exceeded", reason |-> NoReason]
\* the string `${finished.id} failed`: the id and a fixed text, no reason
ItemFailedError(id) ==
  [name |-> "string", id |-> id, text |-> " failed", reason |-> NoReason]

\* ---------------------------------------------------------------- validation
EmptyCache == [id \in Ids |-> "undefined"]

\* isReachable(this.item(id), reachableCache) and the dependsOn.every(...)
\* inside it.  Both return [r, cache]: r is "true", "false", or "overflow"
\* when the nesting exceeds the call stack.  every() stops at the first
\* element that is not reachable.
RECURSIVE isReachable(_, _, _), everyReachable(_, _, _)
isReachable(id, cache, depth) ==
  IF depth > StackLimit THEN [r |-> "overflow", cache |-> cache]
  ELSE IF id \notin Ids THEN [r |-> "false", cache |-> cache]
  ELSE IF Len(deps[id]) = 0
    THEN [r |-> "true", cache |-> [cache EXCEPT ![id] = "true"]]
  ELSE IF cache[id] # "undefined" THEN [r |-> cache[id], cache |-> cache]
  ELSE LET sub == everyReachable(deps[id], cache, depth + 1)
       IN IF sub.r = "overflow" THEN sub
          ELSE [r |-> sub.r, cache |-> [sub.cache EXCEPT ![id] = sub.r]]

everyReachable(ids, cache, depth) ==
  IF ids = <<>> THEN [r |-> "true", cache |-> cache]
  ELSE LET h == isReachable(Head(ids), cache, depth)
       IN IF h.r # "true" THEN h
          ELSE everyReachable(Tail(ids), h.cache, depth)

allReachable == everyReachable(ItemOrder, EmptyCache, 1).r

\* ---------------------------------------------------------------- scheduler
\* done as soon as nothing is running
allDone_NothingRunning(st) == \A id \in Ids : st[id] # InProgress

allDone(st) == \A id \in Ids : st[id] = Completed \/ st[id] = Failed

\* a dependency counts as satisfied as soon as it has been started
areDependenciesSatisfied_Started(st, id) ==
  \A k \in 1..Len(deps[id]) :
    deps[id][k] \in Ids /\ st[deps[id][k]] # NotStarted

\* a dependency counts as satisfied once it has finished, failed or not
areDependenciesSatisfied_Finished(st, id) ==
  \A k \in 1..Len(deps[id]) :
    deps[id][k] \in Ids /\ st[deps[id][k]] \in {Completed, Failed}

\* this.item(dep)?.status === Completed, for every dep
areDependenciesSatisfied(st, id) ==
  \A k \in 1..Len(deps[id]) :
    deps[id][k] \in Ids /\ st[deps[id][k]] = Completed

\* an item that failed is ready again
isReady_FailedToo(st, id) ==
  st[id] \in {NotStarted, Failed} /\ areDependenciesSatisfied(st, id)

isReady(st, id) == st[id] = NotStarted /\ areDependenciesSatisfied(st, id)

\* only the first ready item is started in a pass
readyItems_OneAtATime(st) ==
  LET Ready(id) == isReady(st, id)
      all == SelectSeq(ItemOrder, Ready)
  IN IF all = <<>> THEN all ELSE <<Head(all)>>

\* this.items.filter((item) => this.isReady(item))
readyItems(st) == LET Ready(id) == isReady(st, id) IN SelectSeq(ItemOrder, Ready)

\* Promise.race over the promises in the map: the promises that have settled
\* already win in map order; otherwise the race stays pending.
raceAtCreation(st, inProg) ==
  LET Settled(id) == st[id] # InProgress
      done == SelectSeq(inProg, Settled)
  IN IF done = <<>> THEN NoId ELSE Head(done)

\* One pass of the for(;;) body up to its await (or to the return).
LoopBody(inProg) ==
  IF allDone(status)
  THEN /\ pc' = "resolved"
       /\ inProgress' = <<>>
       /\ raceWinner' = NoId
       /\ UNCHANGED <<status, invoked>>
  ELSE LET ready == readyItems(status)
           started == [id \in Ids |->
                         IF id \in Range(ready) THEN InProgress ELSE status[id]]
           map == inProg \o ready
       IN /\ status' = started
          /\ invoked' = [id \in Ids |->
                           IF id \in Range(ready) THEN invoked[id] + 1 ELSE invoked[id]]
          /\ inProgress' = map
          /\ raceWinner' = raceAtCreation(started, map)
          /\ pc' = "awaiting"

\* The call of DependencyGraph.run(): validation, then the first pass of the
\* loop.
GraphRun ==
  /\ pc \in {"idle", "resolved", "rejected"}
  /\ runs < MaxRuns
  /\ runs' = runs + 1
  /\ LET ok == allReachable
     IN IF ok = "overflow"
        THEN /\ pc' = "rejected"
             /\ error' = StackOverflowError
             /\ inProgress' = <<>>
             /\ raceWinner' = NoId
             /\ UNCHANGED <<status, invoked>>
        ELSE IF ok = "false"
        THEN /\ pc' = "rejected"
             /\ error' = InvalidGraphError
             /\ inProgress' = <<>>
             /\ raceWinner' = NoId
             /\ UNCHANGED <<status, invoked>>
        ELSE /\ error' = NoError
             /\ LoopBody(<<>>)
  /\ UNCHANGED <<deps, reason>>

\* run() is called on the graph by its owner
RunCall ==
  /\ GraphRun
  /\ UNCHANGED <<retryVars, notifierVars, builderVars>>

\* the rejection names the oldest entry of the map
failedId_FirstInMap(finished, inProg) == Head(inProg)

\* the id the rejection of the loop names: finished.id
failedId(finished, inProg) == finished

\* the items still running are marked Failed when run() rejects
siblingsAfterReject_Cancelled(st) ==
  [id \in Ids |-> IF st[id] = InProgress THEN Failed ELSE st[id]]

\* throw `${finished.id} failed`: nothing is cancelled (the TODO of the
\* throw), the status of every item stays as it is
siblingsAfterReject(st) == st

\* The await of Promise.race returns: the rest of the loop body, and the
\* next pass up to its await.
Wake ==
  /\ pc = "awaiting"
  /\ raceWinner # NoId
  /\ LET finished == raceWinner
         NotFinished(id) == id # finished
         rest == SelectSeq(inProgress, NotFinished)
     IN IF status[finished] = Failed
        THEN /\ pc' = "rejected"
             /\ error' = ItemFailedError(failedId(finished, inProgress))
             /\ inProgress' = <<>>
             /\ raceWinner' = NoId
             /\ status' = siblingsAfterReject(status)
             /\ UNCHANGED invoked
        ELSE /\ LoopBody(rest)
             /\ UNCHANGED error
  /\ UNCHANGED <<deps, reason, runs>>
  /\ UNCHANGED <<retryVars, notifierVars, builderVars>>

\* the promise of run(r) settles the pending race if r is in the map
settleRace(id) ==
  IF pc = "awaiting" /\ raceWinner = NoId /\ id \in Range(inProgress)
  THEN id ELSE raceWinner

\* run(runnable): the runnable's promise fulfils
ItemSucceeds(id) ==
  /\ status[id] = InProgress
  /\ status' = [status EXCEPT ![id] = Completed]
  /\ raceWinner' = settleRace(id)
  /\ UNCHANGED <<deps, invoked, reason, pc, inProgress, error, runs>>
  /\ UNCHANGED <<retryVars, notifierVars, builderVars>>

\* run(runnable): the runnable's promise rejects with r
ItemFails(id, r) ==
  /\ status[id] = InProgress
  /\ status' = [status EXCEPT ![id] = Failed]
  /\ reason' = [reason EXCEPT ![id] = r]
  /\ raceWinner' = settleRace(id)
  /\ UNCHANGED <<deps, invoked, pc, inProgress, error, runs>>
  /\ UNCHANGED <<retryVars, notifierVars, builderVars>>

\* ---------------------------------------------------------------- retry
\* Times are held in milliseconds (seconds * 1000), so that the test's
\* backoff of 0.05 s, factor 2, cap 0.2 s is 50, 2, 200 and sleep()'s
\* argument nextBackoffSeconds * 1000 is the held value itself.
NO_BACKOFF == [baseSeconds |-> 0, factor |-> 1, maxSeconds |-> 3600000]
TestBackoff == [baseSeconds |-> 50, factor |-> 2, maxSeconds |-> 200]
\* a Backoff whose base delay is above its cap
BaseAboveMaxBackoff == [baseSeconds |-> 300, factor |-> 2, maxSeconds |-> 200]
Backoffs == {NO_BACKOFF, TestBackoff, BaseAboveMaxBackoff}

Min(x, y) == IF x < y THEN x ELSE y

InvalidArgError == "maxAttempts must be positive"
NoRetryError == "none"

\* no Retry has been derived with withBackoff yet
NoInstance == [exists |-> FALSE, maxAttempts |-> 0, backoff |-> NO_BACKOFF]

\* the fields of the constructed Retry, and of the Retry whose run() is active
Receiver == [exists |-> TRUE, maxAttempts |-> maxAttempts, backoff |-> backoff]
This == IF runOf = "derived" THEN derived ELSE Receiver

\* the check lets zero through
rejectsMaxAttempts_Negative(m) == m < 0

\* the constructor's check: if (maxAttempts < 1) throw
rejectsMaxAttempts(m) == m < 1

\* new Retry(impl, m, b)
Construct(m, b) ==
  /\ rpc = "new"
  /\ ctorArg' = m
  /\ IF rejectsMaxAttempts(m)
     THEN /\ rpc' = "threw"
          /\ retryError' = InvalidArgError
          /\ UNCHANGED <<maxAttempts, backoff>>
     ELSE /\ rpc' = "constructed"
          /\ maxAttempts' = m
          /\ backoff' = b
          /\ UNCHANGED retryError
  /\ UNCHANGED <<successIndex, attemptIndex, attemptCount, nextBackoffSeconds,
                 waits, retryRuns, failures, inFlight, timers, derived, withArg,
                 runOf>>
  /\ UNCHANGED <<graphVars, notifierVars, builderVars>>

\* withBackoff stores the new backoff in the receiver
receiverBackoffAfter_Overwritten(old, new) == new

\* withBackoff assigns no field of the receiver: this.backoff stays
receiverBackoffAfter(old, new) == old

\* withBackoff(b): new Retry(this.impl, this.maxAttempts, b)
WithBackoff(b) ==
  /\ rpc \notin {"new", "threw"}
  /\ ~derived.exists
  /\ ~rejectsMaxAttempts(maxAttempts)
  /\ derived' = [exists |-> TRUE, maxAttempts |-> maxAttempts, backoff |-> b]
  /\ withArg' = b
  /\ backoff' = receiverBackoffAfter(backoff, b)
  /\ UNCHANGED <<successIndex, attemptIndex, ctorArg, maxAttempts, rpc,
                 attemptCount, nextBackoffSeconds, waits, retryError, retryRuns,
                 failures, inFlight, timers, runOf>>
  /\ UNCHANGED <<graphVars, notifierVars, builderVars>>

\* the while condition
loopContinues(count, max) == count < max

\* every failed attempt is followed by a wait, the last one too
attemptsExhausted_Never(count, max) == FALSE

\* the test is off by one
attemptsExhausted_OffByOne(count, max) == count > max

\* the catch block's test: if (attemptCount >= this.maxAttempts) throw e
attemptsExhausted(count, max) == count >= max

\* One evaluation of the while condition and, if it holds, the loop body up
\* to its await: attemptCount++ and the call of this.impl.run().  max is
\* this.maxAttempts and flying the number of pending impl.run() promises.
LoopTop(count, max, flying) ==
  IF loopContinues(count, max)
  THEN /\ attemptCount' = count + 1
       /\ attemptIndex' = attemptIndex + 1
       /\ inFlight' = flying + 1
       /\ rpc' = "attempt"
  ELSE /\ rpc' = "resolved"
       /\ inFlight' = flying
       /\ UNCHANGED <<attemptCount, attemptIndex>>

\* the counter is kept from the previous run()
initialAttemptCount_Kept(previous) == previous

\* let attemptCount = 0: a local of run(), whatever an earlier run() left
initialAttemptCount(previous) == 0

\* run() is called on the constructed Retry or on the derived one
RetryRun(inst) ==
  /\ rpc \in {"constructed", "resolved", "rejected"}
  /\ inst = "derived" => derived.exists
  /\ retryRuns < MaxRetryRuns
  /\ retryRuns' = retryRuns + 1
  /\ runOf' = inst
  /\ LET this == IF inst = "derived" THEN derived ELSE Receiver
     IN /\ nextBackoffSeconds' = this.backoff.baseSeconds
        /\ LoopTop(initialAttemptCount(attemptCount), this.maxAttempts, inFlight)
  /\ waits' = <<>>
  /\ failures' = <<>>
  /\ retryError' = NoRetryError
  /\ UNCHANGED <<successIndex, ctorArg, maxAttempts, backoff, timers, derived,
                 withArg>>
  /\ UNCHANGED <<graphVars, notifierVars, builderVars>>

\* the wrapped runnable (the tests' succeedOnNth): attemptIndex >= successIndex
implSucceeds == attemptIndex >= successIndex

\* await this.impl.run() fulfils: return
AttemptSucceeds ==
  /\ rpc = "attempt"
  /\ implSucceeds
  /\ rpc' = "resolved"
  /\ inFlight' = inFlight - 1
  /\ UNCHANGED <<successIndex, attemptIndex, ctorArg, maxAttempts, backoff,
                 attemptCount, nextBackoffSeconds, waits, retryError, retryRuns,
                 failures, timers, derived, withArg, runOf>>
  /\ UNCHANGED <<graphVars, notifierVars, builderVars>>

\* the delay grows without a cap
nextDelay_Uncapped(current, b) == current * b.factor

\* Math.min(nextBackoffSeconds * this.backoff.factor, this.backoff.maxSeconds)
nextDelay(current, b) == Min(current * b.factor, b.maxSeconds)

\* sleep() is called but not awaited: the loop goes round at once
SuspendOnSleep_NotAwaited(flying) ==
  /\ timers' = timers + 1
  /\ nextBackoffSeconds' = nextDelay(nextBackoffSeconds, This.backoff)
  /\ LoopTop(attemptCount, This.maxAttempts, flying)

\* await sleep(nextBackoffSeconds * 1000): a timer is set and run() is
\* suspended until it fires
SuspendOnSleep(flying) ==
  /\ timers' = timers + 1
  /\ rpc' = "sleeping"
  /\ inFlight' = flying
  /\ UNCHANGED <<attemptCount, attemptIndex, nextBackoffSeconds>>

\* run() rejects with the first failure it saw
thrownValue_First(e) == Head(Append(failures, e))

\* throw e: the value caught from the attempt that just failed
thrownValue(e) == e

\* await this.impl.run() rejects with e: the catch block up to its await
AttemptFails(e) ==
  /\ rpc = "attempt"
  /\ ~implSucceeds
  /\ failures' = Append(failures, e)
  /\ IF attemptsExhausted(attemptCount, This.maxAttempts)
     THEN /\ rpc' = "rejected"
          /\ retryError' = thrownValue(e)
          /\ inFlight' = inFlight - 1
          /\ UNCHANGED <<waits, timers, attemptCount, attemptIndex,
                         nextBackoffSeconds>>
     ELSE /\ waits' = Append(waits, nextBackoffSeconds)
          /\ SuspendOnSleep(inFlight - 1)
          /\ UNCHANGED retryError
  /\ UNCHANGED <<successIndex, ctorArg, maxAttempts, backoff, retryRuns,
                 derived, withArg, runOf>>
  /\ UNCHANGED <<graphVars, notifierVars, builderVars>>

\* await sleep(...) returns: the new delay, and the loop goes round
SleepDone ==
  /\ rpc = "sleeping"
  /\ timers > 0
  /\ timers' = timers - 1
  /\ nextBackoffSeconds' = nextDelay(nextBackoffSeconds, This.backoff)
  /\ LoopTop(attemptCount, This.maxAttempts, inFlight)
  /\ UNCHANGED <<successIndex, ctorArg, maxAttempts, backoff, waits, retryError,
                 retryRuns, failures, derived, withArg, runOf>>
  /\ UNCHANGED <<graphVars, notifierVars, builderVars>>

RetryFresh ==
  /\ attemptIndex = 0
  /\ ctorArg = 0
  /\ maxAttempts = 0
  /\ backoff = NO_BACKOFF
  /\ rpc = "new"
  /\ attemptCount = 0
  /\ nextBackoffSeconds = 0
  /\ waits = <<>>
  /\ retryError = NoRetryError
  /\ retryRuns = 0
  /\ failures = <<>>
  /\ inFlight = 0
  /\ timers = 0
  /\ derived = NoInstance
  /\ withArg = NO_BACKOFF
  /\ runOf = "receiver"

\* ---------------------------------------------------------------- error notifier
\* the values the handler may reject with
HandlerReasons == {"handler fail", "handler boom"}
NoFailure == "none"

\* the handler runs whatever main did
entersCatch_Always(outcome) == TRUE

\* try { await main.run() } catch (e) { ... }: the catch block is entered
\* only when main.run() rejected
entersCatch(outcome) == outcome = "failed"

\* the catch block ends without throwing: the failure is swallowed
afterHandler_Swallowed == "resolved"

\* after await handler.run() fulfils: throw e
afterHandler == "rejected"

\* a failure of the handler is dropped in favour of main's
surfacedWhenHandlerFails_Main(e, h) == e

\* await handler.run() rejects with h inside the catch block: h propagates
surfacedWhenHandlerFails(e, h) == h

\* Job.try(main).onError(handler).run() is called: main.run() is called
NotifierRun ==
  /\ npc \in {"idle", "resolved", "rejected"}
  /\ notifierRuns < MaxNotifierRuns
  /\ notifierRuns' = notifierRuns + 1
  /\ npc' = "main"
  /\ ledger' = Append(ledger, "main")
  /\ mainOutcome' = "pending"
  /\ mainFailure' = NoFailure
  /\ handlerFailure' = NoFailure
  /\ handlerCalls' = 0
  /\ notifierError' = NoFailure
  /\ UNCHANGED <<graphVars, retryVars, builderVars>>

\* what follows the await of main.run(): the catch block up to its await
\* of handler.run(), or the return
AfterMain(outcome) ==
  IF entersCatch(outcome)
  THEN /\ npc' = "handler"
       /\ handlerCalls' = handlerCalls + 1
       /\ ledger' = Append(ledger, "handler")
  ELSE /\ npc' = "resolved"
       /\ UNCHANGED <<handlerCalls, ledger>>

\* await main.run() fulfils
MainSucceeds ==
  /\ npc = "main"
  /\ mainOutcome' = "ok"
  /\ AfterMain("ok")
  /\ UNCHANGED <<mainFailure, handlerFailure, notifierError, notifierRuns>>
  /\ UNCHANGED <<graphVars, retryVars, builderVars>>

\* await main.run() rejects with e
MainFails(e) ==
  /\ npc = "main"
  /\ mainOutcome' = "failed"
  /\ mainFailure' = e
  /\ AfterMain("failed")
  /\ UNCHANGED <<handlerFailure, notifierError, notifierRuns>>
  /\ UNCHANGED <<graphVars, retryVars, builderVars>>

\* await handler.run() fulfils: throw e
HandlerSucceeds ==
  /\ npc = "handler"
  /\ npc' = afterHandler
  /\ notifierError' = IF afterHandler = "rejected" THEN mainFailure ELSE NoFailure
  /\ UNCHANGED <<mainOutcome, mainFailure, handlerFailure, handlerCalls, ledger,
                 notifierRuns>>
  /\ UNCHANGED <<graphVars, retryVars, builderVars>>

\* await handler.run() rejects with h
HandlerFails(h) ==
  /\ npc = "handler"
  /\ npc' = "rejected"
  /\ handlerFailure' = h
  /\ notifierError' = surfacedWhenHandlerFails(mainFailure, h)
  /\ UNCHANGED <<mainOutcome, mainFailure, handlerCalls, ledger, notifierRuns>>
  /\ UNCHANGED <<graphVars, retryVars, builderVars>>

NotifierFresh ==
  /\ npc = "idle"
  /\ mainOutcome = "pending"
  /\ mainFailure = NoFailure
  /\ handlerFailure = NoFailure
  /\ handlerCalls = 0
  /\ ledger = <<>>
  /\ notifierError = NoFailure
  /\ notifierRuns = 0

\* ---------------------------------------------------------------- retry of a graph
\* Job.retry(Job.graph(spec), m): the Retry's impl is the DependencyGraph,
\* so this.impl.run() is the graph's run() on the one graph instance.

\* the loop head of Retry.run() with the graph as impl
WrappedLoopTop(count) ==
  /\ LoopTop(count, maxAttempts, inFlight)
  /\ IF loopContinues(count, maxAttempts) THEN GraphRun ELSE UNCHANGED graphVars

\* run() is called on the Retry
WrappedRetryRun ==
  /\ rpc = "constructed"
  /\ retryRuns' = retryRuns + 1
  /\ runOf' = "receiver"
  /\ nextBackoffSeconds' = backoff.baseSeconds
  /\ WrappedLoopTop(0)
  /\ waits' = <<>>
  /\ failures' = <<>>
  /\ retryError' = NoRetryError
  /\ UNCHANGED <<successIndex, ctorArg, maxAttempts, backoff, timers, derived,
                 withArg>>
  /\ UNCHANGED <<notifierVars, builderVars>>

\* await this.impl.run() fulfils: the graph's run() resolved
WrappedAttemptSucceeds ==
  /\ rpc = "attempt"
  /\ pc = "resolved"
  /\ rpc' = "resolved"
  /\ inFlight' = inFlight - 1
  /\ UNCHANGED <<successIndex, attemptIndex, ctorArg, maxAttempts, backoff,
                 attemptCount, nextBackoffSeconds, waits, retryError, retryRuns,
                 failures, timers, derived, withArg, runOf>>
  /\ UNCHANGED <<graphVars, notifierVars, builderVars>>

\* await this.impl.run() rejects: the graph's run() rejected with error
WrappedAttemptFails ==
  /\ rpc = "attempt"
  /\ pc = "rejected"
  /\ failures' = Append(failures, error)
  /\ IF attemptsExhausted(attemptCount, maxAttempts)
     THEN /\ rpc' = "rejected"
          /\ retryError' = thrownValue(error)
          /\ inFlight' = inFlight - 1
          /\ UNCHANGED <<waits, timers, attemptCount, attemptIndex,
                         nextBackoffSeconds>>
     ELSE /\ waits' = Append(waits, nextBackoffSeconds)
          /\ SuspendOnSleep(inFlight - 1)
          /\ UNCHANGED retryError
  /\ UNCHANGED <<successIndex, ctorArg, maxAttempts, backoff, retryRuns,
                 derived, withArg, runOf>>
  /\ UNCHANGED <<graphVars, notifierVars, builderVars>>

\* await sleep(...) returns: the loop goes round and calls the graph's run()
WrappedSleepDone ==
  /\ rpc = "sleeping"
  /\ timers > 0
  /\ timers' = timers - 1
  /\ nextBackoffSeconds' = nextDelay(nextBackoffSeconds, backoff)
  /\ WrappedLoopTop(attemptCount)
  /\ UNCHANGED <<successIndex, ctorArg, maxAttempts, backoff, waits, retryError,
                 retryRuns, failures, derived, withArg, runOf>>
  /\ UNCHANGED <<notifierVars, builderVars>>

\* ---------------------------------------------------------------- graph builder
\* A GraphItemSpec is held as the properties canonicalise reads from it:
\* run, action, dependsOn, [0] and [1]; a property the value does not have
\* is undefined.  self is the value itself and shape tells which of the
\* three forms of the type it was written in (the code cannot read shape).
Undefined == "undefined"
\* the Runnables given in graph specs
Runnables == {"r1", "r2"}

\* an optional dependsOn property: absent, or an array of ids
NoDependsOn == [defined |-> FALSE, value |-> <<>>]
DependsOnArray(ids) == [defined |-> TRUE, value |-> ids]

\* dependsOn(...ids): { dependsOn: Array.of(...ids) }
dependsOn(ids) == [dependsOn |-> ids]

\* a bare Runnable r
RunnableSpec(r) ==
  [shape |-> "runnable", self |-> r, run |-> "function", action |-> Undefined,
   dependsOn |-> NoDependsOn, elem0 |-> Undefined, elem1 |-> dependsOn(<<>>)]

\* { action: r, dependsOn: ds } and { action: r }
KeyedSpec(r, ds) ==
  [shape |-> "keyed", self |-> "object", run |-> Undefined, action |-> r,
   dependsOn |-> ds, elem0 |-> Undefined, elem1 |-> dependsOn(<<>>)]

\* [r, d] where d is the result of dependsOn(...)
TupleSpec(r, d) ==
  [shape |-> "tuple", self |-> "array", run |-> Undefined, action |-> Undefined,
   dependsOn |-> NoDependsOn, elem0 |-> r, elem1 |-> d]

GraphItemSpecs ==
  {RunnableSpec(r) : r \in Runnables}
    \cup {KeyedSpec(r, NoDependsOn) : r \in Runnables}
    \cup {KeyedSpec(r, DependsOnArray(ds)) : r \in Runnables, ds \in DepLists}
    \cup {TupleSpec(r, dependsOn(ds)) : r \in Runnables, ds \in DepLists}

\* !!spec.run
isRunnable(spec) == spec.run # Undefined

\* !!spec.action
isKeyedObject(spec) == spec.action # Undefined

\* the dependsOn of the keyed form is not read
canonicalise_KeyedWithoutDeps(spec) ==
  IF isRunnable(spec) THEN <<spec.self, <<>>>>
  ELSE IF isKeyedObject(spec) THEN <<spec.action, <<>>>>
  ELSE <<spec.elem0, spec.elem1.dependsOn>>

\* the pair [runnable, dependsOn] of a GraphItemSpec
canonicalise(spec) ==
  IF isRunnable(spec) THEN <<spec.self, <<>>>>
  ELSE IF isKeyedObject(spec)
    THEN <<spec.action,
           IF spec.dependsOn.defined THEN spec.dependsOn.value ELSE <<>>>>
  ELSE <<spec.elem0, spec.elem1.dependsOn>>

toQueuedRunnable(id, spec) ==
  LET pair == canonicalise(spec)
  IN [id |-> id, value |-> pair[1], dependsOn |-> pair[2], status |-> NotStarted]

NoItem == [id |-> NoId, value |-> Undefined, dependsOn |-> <<>>, status |-> "none"]

\* GraphBuilder.build converts one entry [id, gis] of the graph spec
ToQueuedRunnable ==
  /\ bpc = "spec"
  /\ built' = toQueuedRunnable(key, gis)
  /\ bpc' = "built"
  /\ UNCHANGED <<key, gis>>
  /\ UNCHANGED <<graphVars, retryVars, notifierVars>>

\* no graph spec is being converted
BuilderIdle ==
  /\ key = ItemOrder[1]
  /\ gis = RunnableSpec("r1")
  /\ built = NoItem
  /\ bpc = "idle"

GraphFresh ==
  /\ status = [id \in Ids |-> NotStarted]
  /\ invoked = [id \in Ids |-> 0]
  /\ reason = [id \in Ids |-> NoReason]
  /\ pc = "idle"
  /\ inProgress = <<>>
  /\ raceWinner = NoId
  /\ error = NoError
  /\ runs = 0

GraphInit ==
  /\ deps \in [Ids -> DepLists]
  /\ GraphFresh
  /\ RetryFresh
  /\ NotifierFresh
  /\ BuilderIdle
  /\ successIndex = 1

GraphNext ==
  \/ RunCall
  \/ Wake
  \/ \E id \in Ids : ItemSucceeds(id)
  \/ \E id \in Ids, r \in Reasons : ItemFails(id, r)

GraphSpec == GraphInit /\ [][GraphNext]_vars

\* The event loop runs the continuation of every settled await, and every
\* started runnable is taken to settle.
GraphFairSpec ==
  /\ GraphSpec
  /\ WF_vars(Wake)
  /\ \A id \in Ids : WF_vars(ItemSucceeds(id) \/ \E r \in Reasons : ItemFails(id, r))

RetryInit ==
  /\ deps = [id \in Ids |-> <<>>]
  /\ GraphFresh
  /\ RetryFresh
  /\ NotifierFresh
  /\ BuilderIdle
  /\ successIndex \in 1..MaxSuccessIndex

RetryNext ==
  \/ \E m \in (0 - 1)..MaxAttemptsArg, b \in Backoffs : Construct(m, b)
  \/ \E b \in Backoffs : WithBackoff(b)
  \/ \E inst \in {"receiver", "derived"} : RetryRun(inst)
  \/ AttemptSucceeds
  \/ \E e \in Reasons : AttemptFails(e)
  \/ SleepDone

RetrySpec == RetryInit /\ [][RetryNext]_vars

\* The event loop runs the continuation of every settled await; the wrapped
\* runnable settles and the sleep timer fires.
RetryFairSpec ==
  /\ RetrySpec
  /\ WF_vars(AttemptSucceeds)
  /\ WF_vars(\E e \in Reasons : AttemptFails(e))
  /\ WF_vars(SleepDone)

\* Job.retry(Job.graph(spec), m) with no backoff, m within the number of
\* run() calls the graph model allows
RetryGraphNext ==
  \/ \E m \in 1..MaxRuns : Construct(m, NO_BACKOFF)
  \/ WrappedRetryRun
  \/ WrappedAttemptSucceeds
  \/ WrappedAttemptFails
  \/ WrappedSleepDone
  \/ Wake
  \/ \E id \in Ids : ItemSucceeds(id)
  \/ \E id \in Ids, r \in Reasons : ItemFails(id, r)

RetryGraphSpec == GraphInit /\ [][RetryGraphNext]_vars

\* an entry of a graph spec: any key with any GraphItemSpec
BuilderInit ==
  /\ deps = [id \in Ids |-> <<>>]
  /\ GraphFresh
  /\ RetryFresh
  /\ NotifierFresh
  /\ successIndex = 1
  /\ key \in Ids
  /\ gis \in GraphItemSpecs
  /\ built = NoItem
  /\ bpc = "spec"

BuilderNext == ToQueuedRunnable

BuilderSpec == BuilderInit /\ [][BuilderNext]_vars

NotifierInit ==
  /\ deps = [id \in Ids |-> <<>>]
  /\ GraphFresh
  /\ RetryFresh
  /\ NotifierFresh
  /\ BuilderIdle
  /\ successIndex = 1

NotifierNext ==
  \/ NotifierRun
  \/ MainSucceeds
  \/ \E e \in Reasons : MainFails(e)
  \/ HandlerSucceeds
  \/ \E h \in HandlerReasons : HandlerFails(h)

NotifierSpec == NotifierInit /\ [][NotifierNext]_vars

\* The event loop runs the continuation of every settled await; main and
\* the handler are taken to settle.
NotifierFairSpec ==
  /\ NotifierSpec
  /\ WF_vars(MainSucceeds \/ \E e \in Reasons : MainFails(e))
  /\ WF_vars(HandlerSucceeds \/ \E h \in HandlerReasons : HandlerFails(h))

\* ================================================================ properties
\* the ids an item depends on, directly
DirectDeps(id) == Range(deps[id]) \cap Ids

\* the ids an item depends on through at most n edges
RECURSIVE DepsWithin(_, _)
DepsWithin(id, n) ==
  IF n = 0 THEN {}
  ELSE DirectDeps(id) \cup UNION {DepsWithin(d, n - 1) : d \in DirectDeps(id)}

\* the ids an item depends on, directly or transitively
TransDeps(id) == DepsWithin(id, Cardinality(Ids))

HasMissingDep == \E id \in Ids : Range(deps[id]) \ Ids # {}
HasCycle == \E id \in Ids : id \in TransDeps(id)
ValidGraph == ~HasMissingDep /\ ~HasCycle

NothingStarted == \A id \in Ids : status[id] = NotStarted /\ invoked[id] = 0

\* C1: an item goes from NotStarted to InProgress, and its runnable is
\* invoked, only in a step taken from a state in which every id of its
\* dependsOn is an item whose status is Completed; the runnable is invoked
\* in exactly those steps.
C1_StartsOnlyAfterDependencies ==
  [][\A id \in Ids :
       /\ (status[id] = NotStarted /\ status'[id] = InProgress)
            => /\ \A k \in 1..Len(deps[id]) :
                    deps[id][k] \in Ids /\ status[deps[id][k]] = Completed
               /\ invoked'[id] = invoked[id] + 1
       /\ (invoked'[id] # invoked[id])
            => (status[id] = NotStarted /\ status'[id] = InProgress)]_vars

\* an item with two dependencies is running
C1_Witness ==
  \E id \in Ids : Len(deps[id]) = 2 /\ status[id] = InProgress /\ invoked[id] = 1

\* C2: run() resolves only when every item is Completed.
C2_ResolvesOnlyWhenAllCompleted ==
  pc = "resolved" => \A id \in Ids : status[id] = Completed

\* C3: while an item is Failed, no item that depends on it, directly or
\* transitively, has been started and run() has not resolved; and the run
\* of a fresh graph in which such an item fails rejects.
C3_FailedDependency ==
  \E a \in Ids : status[a] = Failed /\ \E b \in Ids : a \in TransDeps(b)

C3_DependentsOfFailedNeverStart ==
  /\ [](\A a, b \in Ids :
          (status[a] = Failed /\ a \in TransDeps(b))
             => (status[b] = NotStarted /\ invoked[b] = 0 /\ pc # "resolved"))
  /\ ((runs = 1 /\ C3_FailedDependency) ~> (pc = "rejected"))

\* run() has rejected naming a failed item that two unstarted items depend on
C3_Witness ==
  \E a \in Ids :
    /\ status[a] = Failed
    /\ Cardinality({b \in Ids : a \in TransDeps(b)}) = 2
    /\ pc = "rejected" /\ error.id = a
    /\ \A b \in Ids : a \in TransDeps(b) => status[b] = NotStarted

\* C4: once run() has been called on a graph with a missing dependency id,
\* it has rejected with the invalid-graph error and nothing was started.
C4_MissingDependencyRejected ==
  (HasMissingDep /\ runs >= 1)
     => (pc = "rejected" /\ error = InvalidGraphError /\ NothingStarted)

\* C5: once run() has been called on a graph with a cycle, it has rejected
\* with the invalid-graph error and nothing was started.
C5_CycleRejected ==
  (HasCycle /\ runs >= 1)
     => (pc = "rejected" /\ error = InvalidGraphError /\ NothingStarted)

\* C6: on a valid graph validation passes and no runnable is invoked twice;
\* if no item ever fails, the first run() resolves with every item
\* Completed and every runnable invoked exactly once.
C6_ValidGraphRunsToCompletion ==
  /\ [](ValidGraph =>
          /\ error.name \notin {"Error", "RangeError"}
          /\ \A id \in Ids : invoked[id] <= 1)
  /\ ((ValidGraph /\ [](\A id \in Ids : status[id] # Failed))
        => [](runs = 1 =>
                <>(/\ runs = 1
                   /\ pc = "resolved"
                   /\ \A id \in Ids : status[id] = Completed /\ invoked[id] = 1)))

\* the first run() of a graph with a two-edge chain has resolved
C6_Witness ==
  /\ ValidGraph
  /\ \E id \in Ids : Cardinality(TransDeps(id)) = 2
  /\ runs = 1 /\ pc = "resolved"
  /\ \A id \in Ids : status[id] = Completed /\ invoked[id] = 1

\* C7: when run() rejects because an item failed, the rejection carries the
\* value that item's runnable rejected with.
C7_RejectionCarriesReason ==
  (pc = "rejected" /\ error.id \in Ids) => error.reason = reason[error.id]

\* C8 as stated, for the rejections run() throws itself: whenever run() has
\* rejected, the rejection names an item whose status is Failed.
C8_EveryRejectionNamesFailedItem ==
  (pc = "rejected" /\ error.name # "RangeError")
     => (error.id \in Ids /\ status[error.id] = Failed)

\* C8 as amended: whenever run() has rejected after the reachability check
\* passed, the rejection names an item whose status is Failed.
C8_LoopRejectionNamesFailedItem ==
  (pc = "rejected" /\ error.name \notin {"Error", "RangeError"})
     => (error.id \in Ids /\ status[error.id] = Failed)

\* run() has rejected naming the younger of two running items
C8_Witness ==
  /\ pc = "rejected" /\ error.name = "string"
  /\ status[error.id] = Failed
  /\ \E other \in Ids : other # error.id /\ status[other] = InProgress

\* C9: the first run() of a Retry resolves only after exactly successIndex
\* invocations, with successIndex <= maxAttempts, and rejects only after
\* exactly maxAttempts invocations, with successIndex > maxAttempts; until
\* then it has made no more invocations than either; and it does settle.
C9_Counts ==
  retryRuns = 1 =>
    /\ rpc = "resolved" =>
         (successIndex <= maxAttempts /\ attemptIndex = successIndex)
    /\ rpc = "rejected" =>
         (successIndex > maxAttempts /\ attemptIndex = maxAttempts)
    /\ rpc \in {"attempt", "sleeping"} =>
         (attemptIndex <= Min(successIndex, maxAttempts) /\ attemptIndex = attemptCount)

C9_InvocationCount ==
  /\ []C9_Counts
  /\ ((retryRuns = 1 /\ rpc = "attempt")
        ~> (retryRuns = 1 /\ rpc \in {"resolved", "rejected"}))

\* the first run() has resolved on the third invocation
C9_Witness ==
  /\ retryRuns = 1 /\ rpc = "resolved"
  /\ successIndex = 3 /\ attemptIndex = 3 /\ maxAttempts = 3

\* C10: a constructor call with maxAttempts <= 0 throws the invalid-argument
\* error and invokes nothing; a Retry that exists has maxAttempts >= 1; and
\* the error is never the rejection of a run().
C10_NonPositiveMaxAttempts ==
  /\ (rpc # "new" /\ ctorArg <= 0)
        => (rpc = "threw" /\ retryError = InvalidArgError /\ attemptIndex = 0)
  /\ rpc \notin {"new", "threw"} => (maxAttempts >= 1 /\ retryError # InvalidArgError)

\* the constructor was given 0 and threw
C10_Witness == rpc = "threw" /\ ctorArg = 0 /\ retryError = InvalidArgError

\* C11: in one run() the first wait is the base delay and every later wait
\* is min(previous wait * factor, maximum delay).
C11_BackoffSequence ==
  /\ Len(waits) >= 1 => waits[1] = This.backoff.baseSeconds
  /\ \A k \in 2..Len(waits) :
       waits[k] = Min(waits[k - 1] * This.backoff.factor, This.backoff.maxSeconds)

\* base 50, factor 2, max 200 has given the waits 50, 100, 200, 200
C11_Witness == This.backoff = TestBackoff /\ waits = <<50, 100, 200, 200>>

\* C12: no wait exceeds the backoff's maxSeconds.
C12_NoWaitAboveMax ==
  \A k \in 1..Len(waits) : waits[k] <= This.backoff.maxSeconds

\* C13: at most one invocation of the wrapped runnable is pending, none is
\* pending while a backoff timer is, and an invocation is made only in a
\* step taken from a state in which none is pending.
C13_SequentialAttempts ==
  /\ [](inFlight <= 1 /\ (inFlight = 1 => timers = 0))
  /\ [][attemptIndex' # attemptIndex
          => (attemptIndex' = attemptIndex + 1 /\ inFlight = 0 /\ inFlight' = 1)]_vars

\* the third attempt of a run() is pending after two non-zero waits
C13_Witness ==
  /\ rpc = "attempt" /\ attemptCount = 3 /\ inFlight = 1
  /\ Len(waits) = 2 /\ waits[1] > 0

\* C14: a run() that has rejected made maxAttempts attempts, all failed, and
\* rejected with the value of the last one; while it is still trying it has
\* surfaced no failure.
C14_RejectsWithLastFailure ==
  /\ rpc = "rejected" =>
       /\ Len(failures) = This.maxAttempts
       /\ retryError = failures[Len(failures)]
  /\ rpc \in {"attempt", "sleeping"} => retryError = NoRetryError

\* three attempts failed with "fail", "fail", "boom" and run() rejected
C14_Witness ==
  rpc = "rejected" /\ failures = <<"fail", "fail", "boom">> /\ retryError = "boom"

\* C19: the Retry that withBackoff(b) returned has the receiver's
\* maxAttempts and backoff b; no field of the receiver changes once it is
\* constructed; and a run() of the receiver waits its own base delay first.
C19_WithBackoffDerives ==
  /\ [](derived.exists =>
          (derived.maxAttempts = maxAttempts /\ derived.backoff = withArg))
  /\ []((runOf = "receiver" /\ Len(waits) >= 1) => waits[1] = backoff.baseSeconds)
  /\ [][rpc \notin {"new", "threw"}
          => (backoff' = backoff /\ maxAttempts' = maxAttempts)]_vars

\* after withBackoff gave another backoff, a later run() of the receiver
\* has waited the receiver's base delay
C19_Witness ==
  /\ derived.exists /\ derived.backoff = BaseAboveMaxBackoff
  /\ backoff = TestBackoff
  /\ retryRuns = 2 /\ runOf = "receiver" /\ waits = <<50>>

\* C20: an item's status changes only NotStarted -> InProgress and
\* InProgress -> Completed or Failed, over all run() invocations, and its
\* runnable is invoked at most once.
C20_StatusTransitions ==
  [][\A id \in Ids :
       /\ status'[id] # status[id] =>
            \/ (status[id] = NotStarted /\ status'[id] = InProgress)
            \/ (status[id] = InProgress /\ status'[id] \in {Completed, Failed})
       /\ invoked'[id] <= 1
       /\ invoked'[id] >= invoked[id]]_vars

\* a second run() has started an item while another item stays Failed
C20_Witness ==
  /\ runs = 2
  /\ \E id \in Ids : status[id] = Failed
  /\ \E id \in Ids : status[id] = InProgress /\ invoked[id] = 1

\* C15: when main has succeeded the handler has not been called in this
\* run() and the run() has resolved.
C15_HandlerNotRunOnSuccess ==
  mainOutcome = "ok" =>
    /\ handlerCalls = 0
    /\ npc = "resolved"
    /\ ledger[Len(ledger)] = "main"

\* a run() whose main succeeded, after a run() whose main failed
C15_Witness ==
  /\ notifierRuns = 2 /\ mainOutcome = "ok" /\ npc = "resolved"
  /\ ledger = <<"main", "handler", "main">>

\* C16: the handler is not called while main is pending; once main has
\* failed the handler has been called exactly once, right after main, and
\* the run() does not resolve; and the run() then rejects.
C16_HandlerRunsOnceOnFailure ==
  /\ [](mainOutcome = "pending" => handlerCalls = 0)
  /\ [](mainOutcome = "failed" =>
          /\ handlerCalls = 1
          /\ npc \in {"handler", "rejected"}
          /\ Len(ledger) >= 2
          /\ ledger[Len(ledger)] = "handler"
          /\ ledger[Len(ledger) - 1] = "main")
  /\ ((mainOutcome = "failed") ~> (mainOutcome = "failed" /\ npc = "rejected"))

\* main failed, the handler succeeded and the run() rejected
C16_Witness ==
  /\ mainOutcome = "failed" /\ handlerFailure = NoFailure
  /\ npc = "rejected" /\ handlerCalls = 1

\* C17: a run() whose main failed rejects with main's failure value when
\* the handler succeeded, and with the handler's failure value, not
\* main's, when the handler failed.
C17_SurfacedFailure ==
  npc = "rejected" =>
    /\ mainFailure \in Reasons
    /\ handlerFailure = NoFailure => notifierError = mainFailure
    /\ handlerFailure # NoFailure =>
         (notifierError = handlerFailure /\ notifierError # mainFailure)

\* main failed with "fail", the handler with "handler boom"
C17_Witness ==
  /\ npc = "rejected" /\ mainFailure = "fail"
  /\ handlerFailure = "handler boom" /\ notifierError = "handler boom"

\* C18: when an attempt of a retried graph has failed at an item, the step
\* that begins the next attempt starts the graph afresh: every item without
\* dependencies is started again and every other item is NotStarted.
C18_RetryRerunsGraphFromStart ==
  [][(attemptCount >= 1 /\ attemptCount' = attemptCount + 1 /\ error.name = "string")
       => \A id \in Ids :
            /\ status'[id] = IF deps[id] = <<>> THEN InProgress ELSE NotStarted
            /\ invoked'[id] = IF deps[id] = <<>> THEN invoked[id] + 1 ELSE invoked[id]]_vars

\* C21: a pass of the scheduler's loop that ends at the await starts every
\* item that was NotStarted with all its dependencies Completed: each is
\* InProgress, invoked and in the map afterwards, however many they are.
\* So an item that is ready is started by the very next pass, unless that
\* pass rejects.
C21_AllReadyItemsStart ==
  [][((runs' # runs \/ inProgress' # inProgress) /\ pc' = "awaiting")
       => \A id \in Ids :
            (/\ status[id] = NotStarted
             /\ \A k \in 1..Len(deps[id]) :
                  deps[id][k] \in Ids /\ status[deps[id][k]] = Completed)
            => /\ status'[id] = InProgress
               /\ invoked'[id] = invoked[id] + 1
               /\ id \in Range(inProgress')]_vars

\* b and c both depend on a, and were started together when a completed
C21_Witness ==
  /\ runs = 1 /\ pc = "awaiting"
  /\ deps = [a |-> <<>>, b |-> <<"a">>, c |-> <<"a">>]
  /\ status = [a |-> Completed, b |-> InProgress, c |-> InProgress]
  /\ inProgress = <<"b", "c">>

\* C22: within one run(), no item goes from NotStarted to InProgress in a
\* step taken from a state in which some item is Failed.
C22_NoStartAfterFailure ==
  [][\A id \in Ids :
       (runs' = runs /\ status[id] = NotStarted /\ status'[id] = InProgress)
         => \A other \in Ids : status[other] # Failed]_vars

\* C24: run() never awaits Promise.race over an empty map.
C24_NeverAwaitsEmptyRace ==
  pc = "awaiting" => inProgress # <<>>

\* C25: the step in which run() rejects for a failed item changes no
\* item's status; while run() is rejected an item that is InProgress can
\* still complete and can still fail with any reason; and, every started
\* runnable settling, it becomes Completed or Failed.
C25_SiblingsNotCancelled ==
  /\ [][(pc = "awaiting" /\ pc' = "rejected") => status' = status]_vars
  /\ [](\A id \in Ids :
          (pc = "rejected" /\ status[id] = InProgress)
            => /\ ENABLED ItemSucceeds(id)
               /\ \A r \in Reasons : ENABLED ItemFails(id, r))
  /\ \A id \in Ids :
       (pc = "rejected" /\ status[id] = InProgress)
         ~> (status[id] \in {Completed, Failed})

\* run() rejected for a; its siblings b and c have settled each its own way
C25_Witness ==
  /\ runs = 1 /\ pc = "rejected" /\ error = ItemFailedError("a")
  /\ deps = [a |-> <<>>, b |-> <<>>, c |-> <<>>]
  /\ status = [a |-> Failed, b |-> Completed, c |-> Failed]
  /\ reason["c"] = "boom"

\* C23: every step that begins a run() of a Retry makes the first attempt
\* of that run() with the delay at the base delay of the instance run and
\* no wait made, however the previous run() ended; and every run() that
\* rejects has made exactly maxAttempts attempts.
C23_CountersLocalToRun ==
  /\ [][retryRuns' = retryRuns + 1
          => /\ rpc' = "attempt"
             /\ attemptCount' = 1
             /\ attemptIndex' = attemptIndex + 1
             /\ nextBackoffSeconds' = This'.backoff.baseSeconds
             /\ waits' = <<>>]_vars
  /\ [](rpc = "rejected" =>
          (attemptCount = This.maxAttempts /\ Len(failures) = This.maxAttempts))

\* two run()s of a Retry of 2 attempts: the first was rejected after 2
\* attempts, the second after 2 more
C23_Witness ==
  /\ retryRuns = 2 /\ runOf = "receiver" /\ maxAttempts = 2
  /\ rpc = "rejected" /\ attemptCount = 2 /\ attemptIndex = 4
  /\ backoff = TestBackoff /\ waits = <<50>>

\* C27: in a run() the waits are one fewer than the invocations of the
\* wrapped runnable, except during a wait, when they are as many; a wait
\* begins only in the step in which an attempt fails that is not the last
\* allowed; and no timer is pending while an attempt runs or after run()
\* has settled.
C27_WaitsOnlyBetweenAttempts ==
  /\ [](rpc \in {"attempt", "resolved", "rejected"} =>
          (Len(waits) = attemptCount - 1 /\ timers = 0))
  /\ [](rpc = "sleeping" => (Len(waits) = attemptCount /\ timers = 1))
  /\ [][Len(waits') > Len(waits)
          => /\ rpc = "attempt" /\ rpc' = "sleeping"
             /\ Len(failures') = Len(failures) + 1
             /\ attemptCount < This.maxAttempts]_vars

\* a run() that succeeded on its third invocation, after two waits
C27_Witness ==
  /\ rpc = "resolved" /\ attemptCount = 3 /\ Len(failures) = 2
  /\ This.maxAttempts = 5 /\ Len(waits) = 2

\* the runnable and the dependencies a GraphItemSpec is written to mean,
\* read off its form
Meaning(spec) ==
  CASE spec.shape = "runnable" -> [value |-> spec.self, dependsOn |-> <<>>]
    [] spec.shape = "keyed" ->
         [value |-> spec.action,
          dependsOn |-> IF spec.dependsOn.defined THEN spec.dependsOn.value
                        ELSE <<>>]
    [] spec.shape = "tuple" ->
         [value |-> spec.elem0, dependsOn |-> spec.elem1.dependsOn]

\* C26: the item made from an entry has the entry's key as id, status
\* NotStarted, and the runnable and dependencies its form means (none
\* for a bare runnable and for a keyed object without dependsOn); and every
\* GraphItemSpec with the same meaning gives the very same item.
C26_ShapesNormalised ==
  bpc = "built" =>
    /\ built.id = key
    /\ built.status = NotStarted
    /\ built.value = Meaning(gis).value
    /\ built.dependsOn = Meaning(gis).dependsOn
    /\ \A other \in GraphItemSpecs :
         Meaning(other) = Meaning(gis) => toQueuedRunnable(key, other) = built

\* { action: r2, dependsOn: ["a", "b"] } under key c
C26_Witness ==
  /\ bpc = "built" /\ key = "c" /\ gis.shape = "keyed"
  /\ built = [id |-> "c", value |-> "r2", dependsOn |-> <<"a", "b">>,
              status |-> NotStarted]

====
